---- MODULE Spec2Model ----
(***************************************************************************)
(* Model of src/main.py: the Sentinel-2 burn-scar detection service.       *)
(*                                                                         *)
(* Fixed-point units.  The program works on Python floats; the model keeps *)
(* every real quantity as an integer count of a fixed unit:                *)
(*   dNBR, dNDVI (raw sample)  : 1/10000   (0.10 = 1000, 0.66 = 6600)      *)
(*   BAI (raw sample)          : 1/1000    (89 = 89000)                    *)
(*   dnbr, dndvi (reported)    : 1/1000    (3 decimals)                    *)
(*   bai (reported)            : 1/100     (2 decimals)                    *)
(*   fire_area_hectares        : 1/100     (2 decimals)                    *)
(* Dates are strings 'YYYY-MM-dd' in the program; the model writes them as *)
(* <<y, m, d>> and ee.Date turns them into a day number.                   *)
(***************************************************************************)
EXTENDS Integers, Sequences, FiniteSets, TLC

(***************************************************************************)
(* Bounds of the model.                                                    *)
(***************************************************************************)
MaxPixels == 2          \* largest number of raster pixels in one ROI scene
MaxImages == 2          \* largest number of images in the archives that are
                        \* enumerated image by image (Archives)
MaxDnbr == 20000        \* get_burn_severity is applied to -MaxDnbr..MaxDnbr
                        \* (a difference of two normalized differences is
                        \* within [-2, 2])
EpochYear == 2020       \* day 0 of the day count is 1 January of this year

(***************************************************************************)
(* Program constants.                                                      *)
(***************************************************************************)
LATEST_VALID_LANDCOVER_YEAR == 2023
dnbr_threshold == 1000          \* 0.10
bai_threshold == 89000          \* 89
dndvi_threshold == 2000         \* 0.2
VeryHighMin == 6600             \* 0.66
HighMin == 4400                 \* 0.44
ModerateMin == 2700             \* 0.27
LowMin == 1000                  \* 0.10
PreFireStartOffset == 60
PreFireEndOffset == 15
numPixels == 20000
AreaPerPixel == 400             \* 0.04 ha, in 1/10000 ha
CROPLAND == 12
CROPLAND_MOSAIC == 14

None == "None"

(***************************************************************************)
(* Arithmetic helpers.                                                     *)
(***************************************************************************)
Min(a, b) == IF a <= b THEN a ELSE b

\* floor division that is also right for negative numerators
FloorDiv(a, b) == IF a >= 0 THEN a \div b ELSE -((-a + b - 1) \div b)

\* Python round(x, n): x given in a unit `step` times finer than the target
\* unit; the nearest multiple, a tie going to the even one.
RoundDiv(x, step) ==
    LET q == FloorDiv(x, step)
        r == x - q * step
    IN  IF 2 * r < step THEN q
        ELSE IF 2 * r > step THEN q + 1
        ELSE IF q % 2 = 0 THEN q ELSE q + 1

SetToSeqBy(S, key(_)) ==
    LET RECURSIVE Build(_)
        Build(T) == IF T = {} THEN <<>>
                    ELSE LET m == CHOOSE x \in T : \A y \in T : key(x) <= key(y)
                         IN  <<m>> \o Build(T \ {m})
    IN  Build(S)

Take(s, n) == SubSeq(s, 1, Min(Len(s), n))

Range(s) == {s[i] : i \in DOMAIN s}

(***************************************************************************)
(* The calendar behind ee.Date.                                            *)
(***************************************************************************)
IsLeap(y) == (y % 4 = 0 /\ y % 100 # 0) \/ y % 400 = 0

DaysInYear(y) == IF IsLeap(y) THEN 366 ELSE 365

DaysInMonth(y, m) ==
    IF m = 2 THEN (IF IsLeap(y) THEN 29 ELSE 28)
    ELSE IF m \in {4, 6, 9, 11} THEN 30 ELSE 31

RECURSIVE DaysBeforeYear(_)
DaysBeforeYear(y) == IF y <= EpochYear THEN 0
                     ELSE DaysBeforeYear(y - 1) + DaysInYear(y - 1)

RECURSIVE DaysBeforeMonth(_, _)
DaysBeforeMonth(y, m) == IF m <= 1 THEN 0
                         ELSE DaysBeforeMonth(y, m - 1) + DaysInMonth(y, m - 1)

\* ee.Date('YYYY-MM-dd'): midnight of that day, as a day count
ee_Date(s) == DaysBeforeYear(s[1]) + DaysBeforeMonth(s[1], s[2]) + (s[3] - 1)

\* ee.Date.get('year')
RECURSIVE YearFrom(_, _)
YearFrom(y, n) == IF n < DaysInYear(y) THEN y ELSE YearFrom(y + 1, n - DaysInYear(y))

ee_Date_get_year(n) == YearFrom(EpochYear, n)

\* ee.Date.advance(delta, 'day')
advance(n, delta) == n + delta

\* ImageCollection.filterDate(start, end): images acquired at or after
\* midnight of `start` and before midnight of `end`
filterDate(images, start, end) == {d \in Range(images) : start <= d /\ d < end}

(***************************************************************************)
(* get_burn_severity (dNBR in 1/10000).  The `None` branch of the source   *)
(* ('Unknown') is for a non-numeric argument; every argument here is a     *)
(* number.                                                                 *)
(***************************************************************************)
get_burn_severity_strict(dnbr_value) ==
    IF dnbr_value > VeryHighMin THEN "Very High Severity"
    ELSE IF dnbr_value > HighMin THEN "High Severity"
    ELSE IF dnbr_value > ModerateMin THEN "Moderate Severity"
    ELSE IF dnbr_value > LowMin THEN "Low Severity"
    ELSE "Unburned or Regrowth"

get_burn_severity(dnbr_value) ==
    IF dnbr_value >= VeryHighMin THEN "Very High Severity"
    ELSE IF dnbr_value >= HighMin THEN "High Severity"
    ELSE IF dnbr_value >= ModerateMin THEN "Moderate Severity"
    ELSE IF dnbr_value >= LowMin THEN "Low Severity"
    ELSE "Unburned or Regrowth"

(***************************************************************************)
(* The remote side: archive, land cover, rasters.                          *)
(***************************************************************************)
\* Pixels of the index rasters dNBR / BAI / dNDVI over an ROI, with the
\* MODIS LC_Type1 class of the pixel.  px is the position in sample order.
PixelPool ==
    { [px |-> 1, lat |-> 301, lon |-> 751, dNBR |-> 1001, BAI |-> 95000,  dNDVI |-> 3000, LC_Type1 |-> 12],
      [px |-> 2, lat |-> 302, lon |-> 752, dNBR |-> 2696, BAI |-> 89004,  dNDVI |-> 2600, LC_Type1 |-> 14],
      [px |-> 3, lat |-> 303, lon |-> 753, dNBR |-> 7000, BAI |-> 150000, dNDVI |-> 2001, LC_Type1 |-> 12],
      [px |-> 4, lat |-> 304, lon |-> 754, dNBR |-> 4400, BAI |-> 120000, dNDVI |-> 5000, LC_Type1 |-> 13],
      [px |-> 5, lat |-> 305, lon |-> 755, dNBR |-> 1000, BAI |-> 120000, dNDVI |-> 5000, LC_Type1 |-> 12],
      [px |-> 6, lat |-> 306, lon |-> 756, dNBR |-> 5000, BAI |-> 89000,  dNDVI |-> 5000, LC_Type1 |-> 12],
      [px |-> 7, lat |-> 307, lon |-> 757, dNBR |-> 3125, BAI |-> 120000, dNDVI |-> 2000, LC_Type1 |-> 14],
      [px |-> 8, lat |-> 308, lon |-> 758, dNBR |-> 500,  BAI |-> 120000, dNDVI |-> 5000, LC_Type1 |-> 12] }

\* a scene: the pixels of one ROI, in sample order
Scenes ==
    { SetToSeqBy(S, LAMBDA p : p.px) :
        S \in {T \in SUBSET PixelPool : Cardinality(T) <= MaxPixels} }

\* Request dates and the acquisition days of archive images (already
\* restricted to the ROI and to CLOUDY_PIXEL_PERCENTAGE < 40); an archive is
\* the list of its images' days, oldest first.
DateRanges == { << <<2022, 10, 20>>, <<2022, 11, 5>> >>,
                << <<2022, 10, 20>>, <<2022, 10, 20>> >>,
                << <<2023, 12, 31>>, <<2024, 1, 1>> >>,
                << <<2024, 1, 10>>, <<2024, 1, 25>> >> }

StartDates == {r[1] : r \in DateRanges}

\* for each request: an image on each end of the two windows
ImageDays ==
    UNION { { advance(ee_Date(r[1]), -PreFireStartOffset),
              advance(ee_Date(r[1]), -PreFireEndOffset),
              ee_Date(r[1]), ee_Date(r[2]) } : r \in DateRanges }

Archives ==
    { SetToSeqBy(A, LAMBDA d : d) :
        A \in {T \in SUBSET ImageDays : Cardinality(T) <= MaxImages} }

\* Remote calls of extract_burn_scars_s2, in program order.
Calls == << "date_format", "image_query", "size_query", "composite",
            "year_query", "agri_mask", "sampling", "result_fetch" >>

FaultPoints == { "date_format", "image_query", "size_query", "year_query",
                 "sampling", "result_fetch" }

CallIndex(c) == CHOOSE i \in DOMAIN Calls : Calls[i] = c

\* the calls made up to and including c
CallsThrough(c) == SubSeq(Calls, 1, CallIndex(c))

(***************************************************************************)
(* get_agricultural_mask.  The collection is filtered lazily, so          *)
(* `landcover` is never None on the client; a year without a record        *)
(* shows only when the mask is evaluated.  A fault while the mask is built *)
(* is caught and gives None.                                               *)
(***************************************************************************)
\* a mask that is always taken from the latest valid year
get_agricultural_mask_latest(year, lcYears, buildFault) ==
    IF buildFault
        THEN [year |-> LATEST_VALID_LANDCOVER_YEAR, kind |-> None, evaluable |-> FALSE]
    ELSE [year |-> LATEST_VALID_LANDCOVER_YEAR, kind |-> "mask",
          evaluable |-> LATEST_VALID_LANDCOVER_YEAR \in lcYears]

get_agricultural_mask(year, lcYears, buildFault) ==
    IF buildFault THEN [year |-> year, kind |-> None, evaluable |-> FALSE]
    ELSE [year |-> year, kind |-> "mask", evaluable |-> year \in lcYears]

InAgriMask(p) == p.LC_Type1 = CROPLAND \/ p.LC_Type1 = CROPLAND_MOSAIC

burn_mask_no_dnbr(p) ==
    /\ p.BAI > bai_threshold
    /\ p.dNDVI > dndvi_threshold

burn_mask(p) ==
    /\ p.dNBR > dnbr_threshold
    /\ p.BAI > bai_threshold
    /\ p.dNDVI > dndvi_threshold

final_mask_spectral_only(p, agri_mask) == burn_mask(p)

final_mask(p, agri_mask) ==
    IF agri_mask.kind = None THEN burn_mask(p)
    ELSE burn_mask(p) /\ InAgriMask(p)

\* analysis_image.sample(...).getInfo(): the unmasked pixels, at most numPixels
sample(scene, agri_mask) ==
    Take(SelectSeq(scene, LAMBDA p : final_mask(p, agri_mask)), numPixels)

Round3(x) == RoundDiv(x, 10)

Round2(x) == RoundDiv(x, 10)

Hotspot(i, p) ==
    [ id        |-> i,
      latitude  |-> p.lat,
      longitude |-> p.lon,
      dnbr      |-> Round3(p.dNBR),
      bai       |-> Round2(p.BAI),
      dndvi     |-> Round3(p.dNDVI),
      severity  |-> get_burn_severity(p.dNBR) ]

all_hotspots(features) == [i \in 1..Len(features) |-> Hotspot(i, features[i])]

(***************************************************************************)
(* extract_burn_scars_s2.  env is what the remote side answers during this *)
(* call: the archive over the ROI, the land-cover years on record, the     *)
(* scene, and where (if anywhere) a remote call faults.  The result        *)
(* carries the returned list and a record of what the call did.            *)
(***************************************************************************)
PipelineOutcome(calls, fault, raised, pre, post, agri, sampled, hotspots) ==
    [ agri_mask |-> agri, calls |-> calls, fault |-> fault, raised |-> raised,
      sampled |-> sampled, hotspots |-> hotspots,
      pre_fire |-> pre, post_fire |-> post ]

NoMask == [year |-> 0, kind |-> "unbuilt", evaluable |-> FALSE]

\* `if pre_count == 0 or post_count == 0`
InsufficientImages_both(pre_count, post_count) == pre_count = 0 /\ post_count = 0

InsufficientImages(pre_count, post_count) == pre_count = 0 \/ post_count = 0

\* a handler that lets a fault of the fetch go on to the caller
Caught_not_fetch(c, pre, post, agri) ==
    PipelineOutcome(CallsThrough(c), c, c = "result_fetch", pre, post, agri, <<>>, <<>>)

\* the two except clauses: a fault at call c ends the function with []
Caught(c, pre, post, agri) ==
    PipelineOutcome(CallsThrough(c), c, FALSE, pre, post, agri, <<>>, <<>>)

extract_burn_scars_s2(start_date_str, end_date_str, env) ==
    LET post_fire_start == ee_Date(start_date_str)
        post_fire_end == ee_Date(end_date_str)
        pre_fire_start == advance(post_fire_start, -PreFireStartOffset)
        pre_fire_end == advance(post_fire_start, -PreFireEndOffset)
        pre_fire_collection == filterDate(env.archive, pre_fire_start, pre_fire_end)
        post_fire_collection == filterDate(env.archive, post_fire_start, post_fire_end)
        pre_count == Cardinality(pre_fire_collection)
        post_count == Cardinality(post_fire_collection)
        analysis_year == ee_Date_get_year(post_fire_start)
        agri_mask_year == Min(analysis_year, LATEST_VALID_LANDCOVER_YEAR)
        agri_mask == get_agricultural_mask(agri_mask_year, env.lcYears, env.agriFault)
        features == sample(env.scene, agri_mask)
    IN  IF env.fault \in {"date_format", "image_query", "size_query"}
            THEN Caught(env.fault, pre_fire_collection, post_fire_collection, NoMask)
        ELSE IF InsufficientImages(pre_count, post_count)
            THEN PipelineOutcome(CallsThrough("size_query"), "none", FALSE,
                                 pre_fire_collection, post_fire_collection,
                                 NoMask, <<>>, <<>>)
        ELSE IF env.fault = "year_query"
            THEN Caught("year_query", pre_fire_collection, post_fire_collection, NoMask)
        ELSE IF env.fault = "sampling"
            THEN Caught("sampling", pre_fire_collection, post_fire_collection, agri_mask)
        ELSE IF env.fault = "result_fetch"
                \/ (agri_mask.kind = "mask" /\ ~agri_mask.evaluable)
            THEN Caught("result_fetch", pre_fire_collection, post_fire_collection, agri_mask)
        ELSE PipelineOutcome(Calls, "none", FALSE, pre_fire_collection, post_fire_collection,
                             agri_mask, features, all_hotspots(features))

(***************************************************************************)
(* The service: requests, the boundary lookup, the handlers.               *)
(***************************************************************************)
Clients == {"c1", "c2"}

\* request.roi: None, an empty dict, a dict without 'geometry', a GeoJSON feature
RoiValues == { None, "{}", "{'type': 'Feature'}", "{'geometry': polygon}" }

Truthy(v) == v \notin {None, "", "{}"}

HasGeometry(roi) == roi = "{'geometry': polygon}"

Request(range, state, district, roi) ==
    [ roi |-> roi, state |-> state, district |-> district,
      start_date |-> range[1], end_date |-> range[2] ]

\* the request shapes: each way of filling state, district and roi that
\* run_fire_detection tells apart
Requests ==
    { Request(range, sdr[1], sdr[2], sdr[3]) :
        range \in DateRanges,
        sdr \in { <<None, None, "{'geometry': polygon}">>,
                  <<"Punjab", "Amritsar", "{'geometry': polygon}">>,
                  <<"Punjab", "Amritsar", None>>,
                  <<"Punjab", "Atlantis", None>>,
                  <<None, None, None>>,
                  <<"Punjab", None, None>>,
                  <<None, None, "{}">>,
                  <<None, None, "{'type': 'Feature'}">> } }

NoRequest == [roi |-> None, state |-> None, district |-> None,
              start_date |-> <<>>, end_date |-> <<>>]

\* FAO/GAUL level 2, as far as the requests can tell
GAUL == { <<"Punjab", "Amritsar">> }

get_district_boundary(state, district, lookupFault) ==
    IF lookupFault
        THEN [geometry |-> None, status |-> "error", boundary_geojson |-> None]
    ELSE IF <<state, district>> \notin GAUL
        THEN [geometry |-> None, status |-> "not_found", boundary_geojson |-> None]
    ELSE [geometry |-> <<state, district>>, status |-> "success",
          boundary_geojson |-> <<"first", state, district>>]

Max(S, default) == IF S = {} THEN default ELSE CHOOSE x \in S : \A y \in S : y <= x

\* round(len(hotspots) * 0.04, 1)
fire_area_hectares_one_decimal(count) == 10 * RoundDiv(count * AreaPerPixel, 1000)

\* round(len(hotspots) * 0.04, 2), in 1/100 ha
fire_area_hectares(count) == RoundDiv(count * AreaPerPixel, 100)

Feature(spot) == [coordinates |-> <<spot.longitude, spot.latitude>>, properties |-> spot]

SuccessBody(hotspots, boundary_geojson) ==
    [ status |-> "Success",
      boundary_geojson |-> boundary_geojson,
      fire_area_hectares |-> fire_area_hectares(Len(hotspots)),
      fire_hotspots |-> Len(hotspots),
      max_dnbr |-> Max({hotspots[i].dnbr : i \in DOMAIN hotspots}, 0),
      hotspots_geojson |-> [i \in DOMAIN hotspots |-> Feature(hotspots[i])] ]

\* the body built by the `except Exception` clause of run_fire_detection
ErrorBody(detail) ==
    [ status |-> "Error", fire_hotspots |-> 0, hotspots_geojson |-> <<>>,
      detail |-> detail ]

NoOutcome == PipelineOutcome(<<>>, "none", FALSE, {}, {}, NoMask, <<>>, <<>>)

\* a remote side that is never asked anything
NoEnv == [lcYears |-> {}, scene |-> <<>>, fault |-> "none", archive |-> <<>>,
          agriFault |-> FALSE]

NoRun == [scene |-> <<>>, env |-> NoEnv, state |-> "", district |-> "",
          ran |-> FALSE, date_range |-> <<>>, out |-> NoOutcome]

\* What one call of run_fire_detection does: the response body, whether
\* extract_burn_scars_s2 was called, and the value of current_fire_data
\* afterwards.  Every exception raised in the body, HTTPException included,
\* is an Exception and ends in the except clause, which returns a body.
\* an error that also empties the result set
Rejected_clears(detail, cur, run) ==
    [run |-> run, body |-> ErrorBody(detail), reached |-> FALSE,
     data |-> [cur EXCEPT !.hotspots = <<>>]]

Rejected(detail, cur, run) ==
    [run |-> run, body |-> ErrorBody(detail), reached |-> FALSE, data |-> cur]

\* a run that does not publish its result
CacheUpdate_keep(cur, hotspots, state_name, district_name, date_range) == cur

\* a cache that keeps the earlier detections
CacheUpdate_extend(cur, hotspots, state_name, district_name, date_range) ==
    [ hotspots |-> cur.hotspots \o hotspots, state |-> state_name,
      district |-> district_name, date_range |-> date_range ]

\* `current_fire_data = {...}`
CacheUpdate(cur, hotspots, state_name, district_name, date_range) ==
    [ hotspots |-> hotspots, state |-> state_name,
      district |-> district_name, date_range |-> date_range ]

AfterPipeline(out, request, state_name, district_name, boundary_geojson, env, cur) ==
    LET date_range == <<request.start_date, "to", request.end_date>>
        run == [scene |-> env.scene, env |-> env, state |-> state_name,
                district |-> district_name, ran |-> TRUE, date_range |-> date_range,
                out |-> out]
    IN  IF out.raised
            THEN [ run |-> run,
                   body |-> ErrorBody("fault in extract_burn_scars_s2"),
                   reached |-> TRUE, data |-> cur ]
            ELSE [ run |-> run,
                   body |-> SuccessBody(out.hotspots, boundary_geojson),
                   reached |-> TRUE,
                   data |-> CacheUpdate(cur, out.hotspots, state_name, district_name,
                                        date_range) ]

Completed(request, state_name, district_name, boundary_geojson, env, cur) ==
    AfterPipeline(extract_burn_scars_s2(request.start_date, request.end_date, env),
                  request, state_name, district_name, boundary_geojson, env, cur)

run_fire_detection(request, lookupFault, env, cur, run) ==
    IF Truthy(request.roi) THEN
        IF ~HasGeometry(request.roi)
            THEN Rejected("KeyError: 'geometry'", cur, run)
            ELSE Completed(request, "Custom", "ROI", <<"roi", "geometry">>, env, cur)
    ELSE IF Truthy(request.state) /\ Truthy(request.district) THEN
        LET boundary_info ==
                get_district_boundary(request.state, request.district, lookupFault)
        IN  IF boundary_info.status # "success"
                THEN Rejected("404: District not found", cur, run)
                ELSE Completed(request, request.state, request.district,
                               boundary_info.boundary_geojson, env, cur)
    ELSE Rejected("400: Either a state/district or a custom ROI must be provided.",
                  cur, run)

\* the request gets as far as calling extract_burn_scars_s2
ReachesPipeline(request, lookupFault) ==
    \/ HasGeometry(request.roi)
    \/ /\ ~Truthy(request.roi)
       /\ Truthy(request.state) /\ Truthy(request.district)
       /\ get_district_boundary(request.state, request.district, lookupFault).status
              = "success"

CsvRow(spot) == << spot.id, spot.latitude, spot.longitude, spot.severity,
                   spot.dnbr, spot.bai, spot.dndvi >>

\* an export without the emptiness check
export_csv_no_check(cur) ==
    [body |-> [rows |-> [i \in DOMAIN cur.hotspots |-> CsvRow(cur.hotspots[i])],
               filename |-> <<"S2_BurnScars", cur.state, cur.district, cur.date_range>>],
     http |-> 200]

\* export_csv_api: 404 when the cached list is empty, the table otherwise
export_csv(cur) ==
    IF cur.hotspots = <<>>
        THEN [body |-> [detail |-> "No data available to export"], http |-> 404]
        ELSE [body |-> [rows |-> [i \in DOMAIN cur.hotspots |-> CsvRow(cur.hotspots[i])],
                        filename |-> <<"S2_BurnScars", cur.state, cur.district,
                                       cur.date_range>>],
              http |-> 200]

(***************************************************************************)
(* State.                                                                  *)
(***************************************************************************)
VARIABLES
    current_fire_data,  \* the module global of the same name
    response,           \* the response most recently sent, and to what request
    viewed,             \* per client: the detections of the last detection
                        \* response it received (its map)
    lastRun,            \* history: the most recent call of extract_burn_scars_s2
                        \* and what the remote side answered during it
    probe               \* a pure function applied to one argument

vars == <<current_fire_data, response, viewed, lastRun, probe>>

NoProbe == [severity |-> "", fn |-> "none", arg |-> 0, done |-> FALSE, area |-> 0]

ServiceInit ==
    /\ current_fire_data = [hotspots |-> <<>>, state |-> "", district |-> "",
                            date_range |-> <<>>]
    /\ response = [body |-> [status |-> "none"], reached |-> FALSE,
                   request |-> NoRequest, http |-> 0, client |-> None, op |-> "none"]
    /\ viewed = [c \in Clients |-> <<>>]
    /\ lastRun = NoRun

Init == ServiceInit /\ probe = NoProbe

\* POST /api/detect-fires
detect_fire_api(c, request, lookupFault, env) ==
    \E r \in {run_fire_detection(request, lookupFault, env, current_fire_data, lastRun)} :
        /\ current_fire_data' = r.data
        /\ lastRun' = r.run
        /\ response' = [body |-> r.body, reached |-> r.reached, request |-> request,
                        http |-> 200, client |-> c, op |-> "detect"]
        /\ viewed' = [viewed EXCEPT ![c] =
                        [i \in DOMAIN r.body.hotspots_geojson |->
                            r.body.hotspots_geojson[i].properties]]
        /\ UNCHANGED probe

\* GET /api/export-csv
export_csv_api(c) ==
    \E r \in {export_csv(current_fire_data)} :
        /\ response' = [body |-> r.body, reached |-> FALSE, request |-> NoRequest,
                        http |-> r.http, client |-> c, op |-> "export"]
        /\ UNCHANGED <<current_fire_data, viewed, lastRun, probe>>

(***************************************************************************)
(* What the remote side can answer during one pipeline call.  A fault at   *)
(* a call makes everything after the call irrelevant, so those fields are  *)
(* held at a fixed value.                                                  *)
(***************************************************************************)
AllYears == {2022, 2023}

LandcoverYearSets == { AllYears, {2022} }

\* an archive with one image in each window of every start date
SufficientArchives ==
    { SetToSeqBy(UNION { { advance(ee_Date(s), -PreFireStartOffset), ee_Date(s) } :
                            s \in StartDates },
                 LAMBDA d : d) }

EarlyFaultEnvs ==
    { [lcYears |-> AllYears, scene |-> <<>>, fault |-> f, archive |-> <<>>,
       agriFault |-> FALSE] : f \in {"date_format", "image_query", "size_query"} }

LateFaultEnvs ==
    [ lcYears : {AllYears},
      scene : { SelectSeq(SetToSeqBy(PixelPool, LAMBDA p : p.px), LAMBDA p : p.px = 3) },
      fault : {"year_query", "sampling", "result_fetch"}, archive : SufficientArchives,
      agriFault : {FALSE} ]

WindowEnvs ==
    [ lcYears : {AllYears}, scene : {<<>>}, fault : {"none"}, archive : Archives,
      agriFault : {FALSE} ]

SceneEnvs(scenes) ==
    [ lcYears : LandcoverYearSets, scene : scenes, fault : {"none"},
      archive : SufficientArchives, agriFault : BOOLEAN ]

\* the whole remote side, for the pipeline on its own
Envs == EarlyFaultEnvs \cup LateFaultEnvs \cup WindowEnvs \cup SceneEnvs(Scenes)

\* a small remote side, for the service with two clients
ServiceRaster ==
    SelectSeq(SetToSeqBy(PixelPool, LAMBDA p : p.px), LAMBDA p : p.px \in {1, 3})

ServiceScenes == { S \in Scenes : \E n \in 0..2 : S = Take(ServiceRaster, n) }

ServiceEnvs ==
    { e \in EarlyFaultEnvs : e.fault = "size_query" }
        \cup [ lcYears : {AllYears}, scene : ServiceScenes, fault : {"none"},
               archive : {SetToSeqBy(ImageDays, LAMBDA d : d)}, agriFault : {FALSE} ]

(***************************************************************************)
(* The service with two clients.                                           *)
(***************************************************************************)
\* the two clients ask about two of the date ranges
ServiceRequests ==
    { r \in Requests : r.start_date[1] # 2023 /\ r.start_date # r.end_date }

DetectFires ==
    \E c \in Clients, request \in ServiceRequests, lookupFault \in BOOLEAN :
        IF ReachesPipeline(request, lookupFault)
            THEN \E env \in ServiceEnvs : detect_fire_api(c, request, lookupFault, env)
            ELSE detect_fire_api(c, request, lookupFault, CHOOSE e \in EarlyFaultEnvs : TRUE)

ExportCsv == \E c \in Clients : export_csv_api(c)

Next == DetectFires \/ ExportCsv

Spec == Init /\ [][Next]_vars

(***************************************************************************)
(* The pipeline against the whole remote side, one client.                 *)
(***************************************************************************)
PipelineRequests == {r \in Requests : HasGeometry(r.roi) /\ ~Truthy(r.state)}

PipelineDetect ==
    \E request \in PipelineRequests, env \in Envs :
        detect_fire_api("c1", request, FALSE, env)

PipelineExport == export_csv_api("c1")

NextPipeline == PipelineDetect \/ PipelineExport

SpecPipeline == Init /\ [][NextPipeline]_vars

(***************************************************************************)
(* The pure functions, applied to one argument each.                       *)
(***************************************************************************)
InitPure ==
    /\ ServiceInit
    /\ probe \in [severity : {""}, fn : {"severity"}, arg : (-MaxDnbr)..MaxDnbr,
                  done : {FALSE}, area : {0}]
            \cup [severity : {""}, fn : {"area"}, arg : 0..numPixels,
                  done : {FALSE}, area : {0}]

ApplySeverity ==
    /\ probe.fn = "severity" /\ ~probe.done
    /\ probe' = [probe EXCEPT !.done = TRUE, !.severity = get_burn_severity(probe.arg)]
    /\ UNCHANGED <<current_fire_data, response, viewed, lastRun>>

ApplyArea ==
    /\ probe.fn = "area" /\ ~probe.done
    /\ probe' = [probe EXCEPT !.done = TRUE, !.area = fire_area_hectares(probe.arg)]
    /\ UNCHANGED <<current_fire_data, response, viewed, lastRun>>

NextPure == ApplySeverity \/ ApplyArea

SpecPure == InitPure /\ [][NextPure]_vars

(***************************************************************************)
(* Properties.                                                             *)
(***************************************************************************)
out == lastRun.out

DetectResponse == response.op = "detect"

ExportResponse == response.op = "export"

\* the run went through sampling and the fetch of the samples
SampledRun == lastRun.ran /\ out.fault = "none" /\ Len(out.calls) = Len(Calls)

\* the returned list holds a detection at the place of pixel p
Detected(p) ==
    \E i \in DOMAIN out.hotspots :
        out.hotspots[i].latitude = p.lat /\ out.hotspots[i].longitude = p.lon

RoiSupplied(request) == request.roi # None

PairSupplied(request) == request.state # None /\ request.district # None

\* C1: get_burn_severity gives each dNBR value the tier of its interval:
\* >= 0.66 Very High, [0.44, 0.66) High, [0.27, 0.44) Moderate,
\* [0.10, 0.27) Low, < 0.10 Unburned or Regrowth; a boundary value is in the
\* higher tier.
C1_SeverityTiers ==
    (probe.fn = "severity" /\ probe.done) =>
        /\ probe.arg >= 6600 => probe.severity = "Very High Severity"
        /\ (4400 <= probe.arg /\ probe.arg < 6600) => probe.severity = "High Severity"
        /\ (2700 <= probe.arg /\ probe.arg < 4400) => probe.severity = "Moderate Severity"
        /\ (1000 <= probe.arg /\ probe.arg < 2700) => probe.severity = "Low Severity"
        /\ probe.arg < 1000 => probe.severity = "Unburned or Regrowth"

C1_Witness ==
    /\ probe.fn = "severity" /\ probe.done
    /\ probe.arg = 4400 /\ probe.severity = "High Severity"

\* C2: a detection request that supplies both an roi and a (state, district)
\* pair, or neither, ends in an error response and does not reach
\* extract_burn_scars_s2.
C2_ExactlyOneRegion ==
    (DetectResponse /\ (RoiSupplied(response.request) <=> PairSupplied(response.request)))
        => (~response.reached /\ response.body.status = "Error")

\* C3: a detection request with no region, or with a district the boundary
\* lookup does not find, is answered with HTTP 400 or 404.
C3_ClientErrorSignal ==
    ( /\ DetectResponse
      /\ ~RoiSupplied(response.request)
      /\ \/ ~PairSupplied(response.request)
         \/ <<response.request.state, response.request.district>> \notin GAUL )
        => response.http \in {400, 404}

\* C4: when the pre-fire or the post-fire subset is empty, the pipeline call
\* returns [] without raising and without compositing, building the mask or
\* sampling, and the response is a success with no detections.
C4_EmptySubsetGivesEmptySuccess ==
    (lastRun.ran /\ (out.pre_fire = {} \/ out.post_fire = {})) =>
        /\ out.hotspots = <<>> /\ ~out.raised
        /\ Range(out.calls) \cap {"composite", "year_query", "agri_mask",
                                  "sampling", "result_fetch"} = {}
        /\ (DetectResponse /\ response.reached) =>
              /\ response.body.status = "Success"
              /\ response.body.fire_hotspots = 0
              /\ response.body.hotspots_geojson = <<>>

C4_Witness ==
    /\ lastRun.ran /\ out.fault = "none"
    /\ out.pre_fire # {} /\ out.post_fire = {}
    /\ DetectResponse /\ response.body.status = "Success"

\* C5: a fault at any remote call of extract_burn_scars_s2 stays inside it:
\* the call returns [] and the request is answered as a success.
C5_FaultGivesEmptyList ==
    (lastRun.ran /\ out.fault \in FaultPoints) =>
        /\ ~out.raised /\ out.hotspots = <<>>
        /\ (DetectResponse /\ response.reached) => response.body.status = "Success"

C5_Witness ==
    /\ lastRun.ran /\ out.fault = "result_fetch" /\ out.agri_mask.kind = "mask"
    /\ out.pre_fire # {} /\ out.post_fire # {} /\ lastRun.scene # <<>>
    /\ DetectResponse

\* C6 as stated: in a run that sampled, a pixel is detected iff dNBR > 0.10,
\* BAI > 89, dNDVI > 0.2 and the pixel is cropland.
C6_Original ==
    SampledRun =>
        \A p \in Range(lastRun.scene) :
            Detected(p) <=> ( /\ p.dNBR > 1000 /\ p.BAI > 89000 /\ p.dNDVI > 2000
                              /\ p.LC_Type1 \in {12, 14} )

\* C6 amended: in a run that sampled, a pixel is detected iff the three
\* spectral criteria hold and, when get_agricultural_mask gave a mask, the
\* pixel is cropland; when it gave None the spectral criteria alone decide.
C6_TripleCheckAndAvailableMask ==
    SampledRun =>
        \A p \in Range(lastRun.scene) :
            Detected(p) <=> ( /\ p.dNBR > 1000 /\ p.BAI > 89000 /\ p.dNDVI > 2000
                              /\ (out.agri_mask.kind # None => p.LC_Type1 \in {12, 14}) )

C6_Witness ==
    /\ SampledRun /\ out.agri_mask.kind = "mask"
    /\ \E p \in Range(lastRun.scene) : Detected(p)
    /\ \E p \in Range(lastRun.scene) :
          /\ p.dNBR > 1000 /\ p.BAI > 89000 /\ p.dNDVI > 2000
          /\ p.LC_Type1 \notin {12, 14} /\ ~Detected(p)

\* C7 as stated: every detection in a response or in the cache reports a
\* dnbr above 0.10.
C7_Original ==
    /\ \A i \in DOMAIN current_fire_data.hotspots :
          current_fire_data.hotspots[i].dnbr > 100
    /\ DetectResponse =>
          \A i \in DOMAIN response.body.hotspots_geojson :
              response.body.hotspots_geojson[i].properties.dnbr > 100

\* C7 amended: every detection in a response or in the cache reports a dnbr
\* of at least 0.10 (a sampled value just above 0.10 is reported as 0.1).
C7_ReportedDnbrAtLeastThreshold ==
    /\ \A i \in DOMAIN current_fire_data.hotspots :
          current_fire_data.hotspots[i].dnbr >= 100
    /\ DetectResponse =>
          \A i \in DOMAIN response.body.hotspots_geojson :
              response.body.hotspots_geojson[i].properties.dnbr >= 100

C7_Witness ==
    /\ DetectResponse /\ response.body.status = "Success"
    /\ \E i \in DOMAIN response.body.hotspots_geojson :
          response.body.hotspots_geojson[i].properties.dnbr = 100
    /\ \E i \in DOMAIN current_fire_data.hotspots :
          current_fire_data.hotspots[i].dnbr > 100

\* C8: the cache holds exactly the detections, region and date range of the
\* most recent pipeline run, and an export renders exactly those detections,
\* one row each, in the columns id, latitude, longitude, severity, dnbr,
\* bai, dndvi.
C8_CacheIsLastRun ==
    /\ ~lastRun.ran => current_fire_data.hotspots = <<>>
    /\ lastRun.ran =>
          /\ current_fire_data.hotspots = out.hotspots
          /\ current_fire_data.state = lastRun.state
          /\ current_fire_data.district = lastRun.district
          /\ current_fire_data.date_range = lastRun.date_range
    /\ (ExportResponse /\ response.http = 200) =>
          /\ Len(response.body.rows) = Len(out.hotspots)
          /\ \A i \in DOMAIN out.hotspots :
                response.body.rows[i] =
                    << out.hotspots[i].id, out.hotspots[i].latitude,
                       out.hotspots[i].longitude, out.hotspots[i].severity,
                       out.hotspots[i].dnbr, out.hotspots[i].bai,
                       out.hotspots[i].dndvi >>

C8_Witness ==
    /\ ExportResponse /\ response.http = 200
    /\ Len(response.body.rows) = 1
    /\ \E c \in Clients : Len(viewed[c]) = 2

\* C9: an export is answered 404 exactly when the cache has no detections
\* (before any run, or after a run with none); otherwise with a table.
C9_ExportNotFoundIffEmpty ==
    ExportResponse =>
        /\ response.http = 404 <=> current_fire_data.hotspots = <<>>
        /\ response.http = 404 <=> (~lastRun.ran \/ out.hotspots = <<>>)
        /\ response.http # 404 =>
              (response.http = 200 /\ Len(response.body.rows) > 0)

C9_Witness ==
    /\ ExportResponse /\ response.http = 404
    /\ lastRun.ran /\ out.hotspots = <<>>
    /\ \E c \in Clients : viewed[c] # <<>>

\* C10: fire_area_hectares is 0.04 ha for each detection, exactly, for every
\* detection count from 0 to the sampling cap of 20000.
C10_AreaIsFourHundredthsPerDetection ==
    (probe.fn = "area" /\ probe.done) => probe.area = 4 * probe.arg

C10_Witness ==
    probe.fn = "area" /\ probe.done /\ probe.arg = 20000 /\ probe.area = 80000

\* the calendar year written in the start date of the last run's request
StartYear == lastRun.date_range[1][1]

\* C11: the agricultural mask a pipeline run asks for is the one of the year
\* min(Y, 2023), Y being the calendar year of the post-fire start date: the
\* 2023 mask when Y > 2023, the mask of Y itself when Y <= 2023.
C11_MaskYearIsClamped ==
    (lastRun.ran /\ out.agri_mask.kind # "unbuilt") =>
        /\ StartYear > 2023 => out.agri_mask.year = 2023
        /\ StartYear <= 2023 => out.agri_mask.year = StartYear

C11_Witness ==
    /\ SampledRun /\ out.agri_mask.kind = "mask"
    /\ StartYear = 2024 /\ out.agri_mask.year = 2023
    /\ out.hotspots # <<>>

\* the archive the remote side held during the last run
RunArchive == Range(lastRun.env.archive)

\* the subsets were formed: the run got as far as filtering the archive
SubsetsFormed == lastRun.ran /\ lastRun.env.fault \notin {"date_format", "image_query"}

\* C12: the pre-fire subset is exactly the archive images dated within
\* [start - 60 days, start - 15 days] and the post-fire subset exactly those
\* within [start, end], both ends included; an image of the end date is in
\* the post-fire subset, also when start = end.
C12_WindowsInclusive ==
    SubsetsFormed =>
        LET start == ee_Date(lastRun.date_range[1])
            end == ee_Date(lastRun.date_range[3])
        IN  /\ out.pre_fire = {d \in RunArchive : start - 60 <= d /\ d <= start - 15}
            /\ out.post_fire = {d \in RunArchive : start <= d /\ d <= end}

\* the last run asked for the mask of a year the land-cover dataset has no
\* record of, and no remote call was made to fault
MissingLandcoverYear ==
    /\ lastRun.ran /\ lastRun.env.fault = "none"
    /\ out.agri_mask.kind # "unbuilt"
    /\ out.agri_mask.year \notin lastRun.env.lcYears

\* C13: when the land-cover dataset has no record for the resolved year,
\* get_agricultural_mask returns None, and the run goes on with the
\* spectral-only mask: it returns the pixels that pass the three thresholds,
\* never an empty result because of the missing year.
C13_MissingYearIsUnavailable ==
    MissingLandcoverYear =>
        /\ out.agri_mask.kind = None
        /\ out.fault = "none"
        /\ out.hotspots = all_hotspots(SelectSeq(lastRun.scene, burn_mask))

\* the table an export renders from a list of detections
RowsOf(hotspots) == [i \in DOMAIN hotspots |-> CsvRow(hotspots[i])]

\* C14: there is one result set for all clients and no lock: every completed
\* detection of a client replaces the shared set with that client's
\* detections and leaves the other clients' maps as they were, so that an
\* export of another client can return detections that differ from those of
\* the detection response it last received (C14_Witness is such a state).
C14_DetectionReplacesSharedResult ==
    [][ \A c \in Clients :
          ( /\ response'.op = "detect" /\ response'.client = c
            /\ response'.body.status = "Success" ) =>
              /\ current_fire_data'.hotspots = viewed'[c]
              /\ export_csv(current_fire_data') =
                     export_csv([current_fire_data' EXCEPT !.hotspots = viewed'[c]])
              /\ \A d \in Clients \ {c} : viewed'[d] = viewed[d]
      ]_vars

\* client c saw its own detections, client d then ran a detection, and the
\* export of c returned the detections of d
C14_Witness ==
    \E c \in Clients, d \in Clients :
        /\ c # d
        /\ ExportResponse /\ response.client = c /\ response.http = 200
        /\ viewed[c] # <<>> /\ viewed[d] # <<>>
        /\ response.body.rows # RowsOf(viewed[c])
        /\ response.body.rows = RowsOf(viewed[d])

\* C15: the severity of every returned detection is the tier that the dNBR
\* thresholds give to the detection's own reported dnbr (3 decimals, here in
\* 1/1000), also when the sampled value rounds up onto a tier boundary.
C15_SeverityMatchesReportedDnbr ==
    \A i \in DOMAIN out.hotspots :
        LET dnbr == out.hotspots[i].dnbr
        IN  out.hotspots[i].severity =
                IF dnbr >= 660 THEN "Very High Severity"
                ELSE IF dnbr >= 440 THEN "High Severity"
                ELSE IF dnbr >= 270 THEN "Moderate Severity"
                ELSE IF dnbr >= 100 THEN "Low Severity"
                ELSE "Unburned or Regrowth"

\* C16: a detection request that is answered with an error (no region, district
\* not found, boundary lookup fault, malformed roi) leaves current_fire_data
\* as it was: an export after it returns what an export before it returned,
\* the detections of the last run that completed.
C16_ErrorLeavesResultSet ==
    [][ (response'.op = "detect" /\ response'.body.status = "Error") =>
            /\ current_fire_data' = current_fire_data
            /\ export_csv(current_fire_data') = export_csv(current_fire_data)
            /\ lastRun' = lastRun
            /\ lastRun.ran => current_fire_data'.hotspots = lastRun.out.hotspots
      ]_vars

\* an error response sent while the result set holds the detections of an
\* earlier run
C16_Witness ==
    /\ DetectResponse /\ response.body.status = "Error" /\ ~response.reached
    /\ HasGeometry(response.request.roi) = FALSE /\ Truthy(response.request.roi)
    /\ lastRun.ran /\ current_fire_data.hotspots # <<>>
    /\ current_fire_data.hotspots = out.hotspots
    /\ viewed[response.client] = <<>>

====
